---- MODULE Spec2Model ----
(***************************************************************************)
(* A model of the recipe backend of src/main.py: the /generate-recipe      *)
(* handler (generate_recipe), the prompt it builds, the single outbound    *)
(* call of send_to_gemini and the translation of the upstream's behaviour  *)
(* into the reply the caller gets.                                         *)
(*                                                                         *)
(* Python str values are sequences of one-character strings, so that       *)
(* ", ".join, str.strip and the substring test are computed character by   *)
(* character.  JSON documents are tagged records.  An evaluation that may  *)
(* raise returns a record [exc, v, status_code, detail]: exc = "none"      *)
(* means it returned v.                                                    *)
(***************************************************************************)
EXTENDS Integers, Sequences, FiniteSets, TLC

(* The number of inbound requests that may be in flight together. *)
NumReqs == 2

(* The longest JSON list the modelled upstream puts in a reply body. *)
MaxLen == 2

Reqs == 1..NumReqs

-----------------------------------------------------------------------------
(* Python str operations on sequences of characters. *)

Whitespace == {" ", "\n", "\t", "\r", "\f"}

RECURSIVE LStrip(_)
LStrip(s) ==
    IF s # <<>> /\ Head(s) \in Whitespace THEN LStrip(Tail(s)) ELSE s

RECURSIVE RStrip(_)
RStrip(s) ==
    IF s # <<>> /\ s[Len(s)] \in Whitespace
    THEN RStrip(SubSeq(s, 1, Len(s) - 1))
    ELSE s

(* str.strip() *)
Strip(s) == RStrip(LStrip(s))

(* sep.join(items): the items in order, sep between neighbours. *)
RECURSIVE Join(_, _)
Join(sep, items) ==
    IF items = <<>> THEN <<>>
    ELSE IF Len(items) = 1 THEN items[1]
    ELSE items[1] \o sep \o Join(sep, Tail(items))

-----------------------------------------------------------------------------
(* The two prompt templates of generate_recipe. *)

(* prompt_fr, the literal text before the {ingredients} field, one row per source line. *)
prompt_fr_Before ==
    <<"\n">>  \* line 86
    \o <<" ", " ", " ", " ", "T", "u", " ", "e", "s", " ", "u", "n", " ", "c", "h", "e", "f", " ", "c", "u", "i", "s", "i", "n", "i", "e", "r", " ", "c", "r", "é", "a", "t", "i", "f", " ", "e", "t", " ", "p", "a", "s", "s", "i", "o", "n", "n", "é", ".", " ", "\n">>  \* line 87
    \o <<" ", " ", " ", " ", "T", "o", "n", " ", "r", "ô", "l", "e", " ", "e", "s", "t", " ", "d", "e", " ", "c", "r", "é", "e", "r", " ", "u", "n", "e", " ", "r", "e", "c", "e", "t", "t", "e", " ", "s", "i", "m", "p", "l", "e", " ", "e", "t", " ", "d", "é", "l", "i", "c", "i", "e", "u", "s", "e", " ", "à", " ", "p", "a", "r", "t", "i", "r", " ", "d", "e", "s", " ", "i", "n", "g", "r", "é", "d", "i", "e", "n", "t", "s", " ", "s", "u", "i", "v", "a", "n", "t", "s", " ", ":", " ">>  \* line 88

(* prompt_fr, the literal text after the {ingredients} field, one row per source line. *)
prompt_fr_After ==
    <<".", "\n">>  \* line 88
    \o <<"\n">>  \* line 89
    \o <<" ", " ", " ", " ", "T", "a", " ", "r", "é", "p", "o", "n", "s", "e", " ", "d", "o", "i", "t", " ", "ê", "t", "r", "e", " ", "a", "u", " ", "f", "o", "r", "m", "a", "t", " ", "J", "S", "O", "N", " ", "e", "t", " ", "c", "o", "n", "t", "e", "n", "i", "r", " ", "l", "e", "s", " ", "c", "l", "é", "s", " ", "s", "u", "i", "v", "a", "n", "t", "e", "s", " ", ":", " ", "\n">>  \* line 90
    \o <<" ", " ", " ", " ", "-", " ", "n", "o", "m", "_", "r", "e", "c", "e", "t", "t", "e", "\n">>  \* line 91
    \o <<" ", " ", " ", " ", "-", " ", "d", "e", "s", "c", "r", "i", "p", "t", "i", "o", "n", "_", "c", "o", "u", "r", "t", "e", " ", "(", "2", " ", "p", "h", "r", "a", "s", "e", "s", " ", "a", "l", "l", "é", "c", "h", "a", "n", "t", "e", "s", ")", "\n">>  \* line 92
    \o <<" ", " ", " ", " ", "-", " ", "i", "n", "s", "t", "r", "u", "c", "t", "i", "o", "n", "s", " ", "(", "u", "n", "e", " ", "l", "i", "s", "t", "e", " ", "d", "'", "é", "t", "a", "p", "e", "s", " ", "c", "l", "a", "i", "r", "e", "s", ")", "\n">>  \* line 93
    \o <<"\n">>  \* line 94
    \o <<" ", " ", " ", " ", "U", "t", "i", "l", "i", "s", "e", " ", "u", "n", " ", "s", "t", "y", "l", "e", " ", "p", "é", "d", "a", "g", "o", "g", "u", "e", " ", "e", "t", " ", "e", "n", "c", "o", "u", "r", "a", "g", "e", "a", "n", "t", ".", " ", "U", "t", "i", "l", "i", "s", "e", " ", "d", "u", " ", "m", "a", "r", "k", "d", "o", "w", "n", ".", "\n">>  \* line 95
    \o <<" ", " ", " ", " ", "R", "é", "p", "o", "n", "d", "s", " ", "e", "n", " ", "f", "r", "a", "n", "ç", "a", "i", "s", ".", "\n">>  \* line 96
    \o <<" ", " ", " ", " ", "N", "'", "h", "é", "s", "i", "t", "e", " ", "p", "a", "s", " ", "à", " ", "a", "j", "o", "u", "t", "e", "r", " ", "d", "e", "s", " ", "c", "o", "n", "s", "e", "i", "l", "s", " ", "o", "u", " ", "d", "e", "s", " ", "a", "s", "t", "u", "c", "e", "s", " ", "p", "o", "u", "r", " ", "r", "é", "u", "s", "s", "i", "r", " ", "l", "a", " ", "r", "e", "c", "e", "t", "t", "e", ".", "\n">>  \* line 97
    \o <<" ", " ", " ", " ", "U", "t", "i", "l", "i", "s", "e", " ", "d", "e", "s", " ", "é", "m", "o", "j", "i", "s", " ", "p", "o", "u", "r", " ", "r", "e", "n", "d", "r", "e", " ", "l", "a", " ", "r", "e", "c", "e", "t", "t", "e", " ", "p", "l", "u", "s", " ", "e", "n", "g", "a", "g", "e", "a", "n", "t", "e", ".", "\n">>  \* line 98
    \o <<" ", " ", " ", " ">>  \* line 99

(* prompt_en, the literal text before the {ingredients} field, one row per source line. *)
prompt_en_Before ==
    <<"\n">>  \* line 101
    \o <<" ", " ", " ", " ", "Y", "o", "u", "'", "r", "e", " ", "a", " ", "c", "r", "e", "a", "t", "i", "v", "e", " ", "a", "n", "d", " ", "p", "a", "s", "s", "i", "o", "n", "a", "t", "e", " ", "c", "h", "e", "f", ".", " ", "\n">>  \* line 102
    \o <<" ", " ", " ", " ", "Y", "o", "u", "r", " ", "r", "o", "l", "e", " ", "i", "s", " ", "t", "o", " ", "c", "r", "e", "a", "t", "e", " ", "a", " ", "s", "i", "m", "p", "l", "e", ",", " ", "d", "e", "l", "i", "c", "i", "o", "u", "s", " ", "r", "e", "c", "i", "p", "e", " ", "u", "s", "i", "n", "g", " ", "t", "h", "e", " ", "f", "o", "l", "l", "o", "w", "i", "n", "g", " ", "i", "n", "g", "r", "e", "d", "i", "e", "n", "t", "s", ":", " ">>  \* line 103

(* prompt_en, the literal text after the {ingredients} field, one row per source line. *)
prompt_en_After ==
    <<".", "\n">>  \* line 103
    \o <<"\n">>  \* line 104
    \o <<" ", " ", " ", " ", "Y", "o", "u", "r", " ", "a", "n", "s", "w", "e", "r", " ", "m", "u", "s", "t", " ", "b", "e", " ", "i", "n", " ", "J", "S", "O", "N", " ", "f", "o", "r", "m", "a", "t", " ", "a", "n", "d", " ", "c", "o", "n", "t", "a", "i", "n", " ", "t", "h", "e", " ", "f", "o", "l", "l", "o", "w", "i", "n", "g", " ", "k", "e", "y", "s", ":", "\n">>  \* line 105
    \o <<" ", " ", " ", " ", "-", " ", "r", "e", "c", "i", "p", "e", "_", "n", "a", "m", "e", "\n">>  \* line 106
    \o <<" ", " ", " ", " ", "-", " ", "s", "h", "o", "r", "t", "_", "d", "e", "s", "c", "r", "i", "p", "t", "i", "o", "n", " ", "(", "2", " ", "t", "a", "n", "t", "a", "l", "i", "z", "i", "n", "g", " ", "s", "e", "n", "t", "e", "n", "c", "e", "s", ")", "\n">>  \* line 107
    \o <<" ", " ", " ", " ", "-", " ", "i", "n", "s", "t", "r", "u", "c", "t", "i", "o", "n", "s", " ", "(", "a", " ", "l", "i", "s", "t", " ", "o", "f", " ", "c", "l", "e", "a", "r", " ", "s", "t", "e", "p", "s", ")", "\n">>  \* line 108
    \o <<"\n">>  \* line 109
    \o <<" ", " ", " ", " ", "U", "s", "e", " ", "a", " ", "p", "e", "d", "a", "g", "o", "g", "i", "c", "a", "l", " ", "a", "n", "d", " ", "e", "n", "c", "o", "u", "r", "a", "g", "i", "n", "g", " ", "s", "t", "y", "l", "e", ".", " ", "U", "s", "e", " ", "m", "a", "r", "k", "d", "o", "w", "n", ".", "\n">>  \* line 110
    \o <<" ", " ", " ", " ", "R", "e", "s", "p", "o", "n", "d", " ", "i", "n", " ", "E", "n", "g", "l", "i", "s", "h", ".", "\n">>  \* line 111
    \o <<" ", " ", " ", " ", "F", "e", "e", "l", " ", "f", "r", "e", "e", " ", "t", "o", " ", "a", "d", "d", " ", "t", "i", "p", "s", " ", "o", "r", " ", "t", "r", "i", "c", "k", "s", " ", "t", "o", " ", "m", "a", "k", "e", " ", "t", "h", "e", " ", "r", "e", "c", "i", "p", "e", " ", "a", " ", "s", "u", "c", "c", "e", "s", "s", ".", "\n">>  \* line 112
    \o <<" ", " ", " ", " ", "U", "s", "e", " ", "e", "m", "o", "j", "i", "s", " ", "t", "o", " ", "m", "a", "k", "e", " ", "t", "h", "e", " ", "r", "e", "c", "i", "p", "e", " ", "m", "o", "r", "e", " ", "e", "n", "g", "a", "g", "i", "n", "g", ".", "\n">>  \* line 113
    \o <<" ", " ", " ", " ">>  \* line 114
LanguageEnum == {"fr", "en"}

(* A variant: the items joined by "," with no space. *)
JoinIngredientsByComma(ingredients) == Join(<<",">>, ingredients)

(* ingredients = ", ".join(data.ingredients) *)
JoinIngredients(ingredients) == Join(<<",", " ">>, ingredients)

(* prompt_fr = f"""...{ingredients}...""".strip() *)
prompt_fr(ingredients) == Strip(prompt_fr_Before \o ingredients \o prompt_fr_After)

(* prompt_en = f"""...{ingredients}...""".strip() *)
prompt_en(ingredients) == Strip(prompt_en_Before \o ingredients \o prompt_en_After)

(* A variant: the two templates taken for each other. *)
SelectPromptSwapped(language, ingredients) ==
    IF language = "fr" THEN prompt_en(ingredients) ELSE prompt_fr(ingredients)

(* prompt = prompt_fr if data.language == LanguageEnum.fr else prompt_en *)
SelectPrompt(language, ingredients) ==
    IF language = "fr" THEN prompt_fr(ingredients) ELSE prompt_en(ingredients)

(* The prompt generate_recipe builds from a validated request. *)
BuildPrompt(data) == SelectPrompt(data.language, JoinIngredients(data.ingredients))

(* RecipeRequest: ingredients is any list of str, language is a LanguageEnum. *)
ValidRecipeRequest(raw) == raw.language \in LanguageEnum

-----------------------------------------------------------------------------
(* JSON documents, as response.json() returns them. *)

JNull == [t |-> "null"]
JNum(n) == [t |-> "num", v |-> n]
JStr(s) == [t |-> "str", v |-> s]
JList(items) == [t |-> "list", v |-> items]
JDict(members) == [t |-> "dict", v |-> members]

(* A body that is no JSON document at all. *)
NotJson(s) == [t |-> "text", v |-> s]

-----------------------------------------------------------------------------
(* Results of evaluations that may raise. *)

Return(value) == [exc |-> "none", v |-> value, status_code |-> 0, detail |-> ""]

Raise(cls) == [exc |-> cls, v |-> JNull, status_code |-> 0, detail |-> ""]

(* raise HTTPStatusError(..., response=self): carries the response's status *)
RaiseStatus(status) ==
    [exc |-> "HTTPStatusError", v |-> JNull, status_code |-> status, detail |-> ""]

(* raise HTTPException(status_code=..., detail=...) *)
HTTPException(status_code, detail) ==
    [exc |-> "HTTPException", v |-> JNull, status_code |-> status_code, detail |-> detail]

(* res raised: the statements after it do not run *)
Raised(res) == res.exc # "none"

(* The base class of each exception class the call can meet (Exception is the root). *)
BaseClass ==
    [ ConnectTimeout      |-> "TimeoutException",
      ReadTimeout         |-> "TimeoutException",
      WriteTimeout        |-> "TimeoutException",
      PoolTimeout         |-> "TimeoutException",
      TimeoutException    |-> "TransportError",
      ConnectError        |-> "NetworkError",
      ReadError           |-> "NetworkError",
      WriteError          |-> "NetworkError",
      NetworkError        |-> "TransportError",
      RemoteProtocolError |-> "ProtocolError",
      ProtocolError       |-> "TransportError",
      TransportError      |-> "RequestError",
      DecodingError       |-> "RequestError",
      RequestError        |-> "HTTPError",
      HTTPStatusError     |-> "HTTPError",
      HTTPError           |-> "Exception",
      KeyError            |-> "LookupError",
      IndexError          |-> "LookupError",
      LookupError         |-> "Exception",
      TypeError           |-> "Exception",
      JSONDecodeError     |-> "ValueError",
      ValueError          |-> "Exception",
      HTTPException       |-> "Exception" ]

(* isinstance(e, cls), which is what an except clause tests *)
RECURSIVE IsInstance(_, _)
IsInstance(e, cls) ==
    \/ e = cls
    \/ e \in DOMAIN BaseClass /\ IsInstance(BaseClass[e], cls)

-----------------------------------------------------------------------------
(* Python subscription on a JSON document. *)

(* value[key], key a str *)
GetKey(value, key) ==
    CASE value.t = "dict" ->
            IF key \in DOMAIN value.v THEN Return(value.v[key]) ELSE Raise("KeyError")
      [] OTHER -> Raise("TypeError")

(* value[index], index an int >= 0 *)
GetIndex(value, index) ==
    CASE value.t = "dict" -> Raise("KeyError")
      [] value.t = "list" ->
            IF index + 1 <= Len(value.v) THEN Return(value.v[index + 1]) ELSE Raise("IndexError")
      [] value.t = "str" ->
            IF index + 1 <= Len(value.v) THEN Return(JStr(<<value.v[index + 1]>>)) ELSE Raise("IndexError")
      [] OTHER -> Raise("TypeError")

(* A variant: the last candidate read in place of the first. *)
ExtractTextOfLastCandidate(data) ==
    LET candidates == GetKey(data, "candidates")
        candidate  == IF Raised(candidates) THEN candidates
                      ELSE IF candidates.v.t = "list" /\ candidates.v.v # <<>>
                      THEN Return(candidates.v.v[Len(candidates.v.v)])
                      ELSE GetIndex(candidates.v, 0)
        content    == IF Raised(candidate) THEN candidate ELSE GetKey(candidate.v, "content")
        parts      == IF Raised(content) THEN content ELSE GetKey(content.v, "parts")
        part       == IF Raised(parts) THEN parts ELSE GetIndex(parts.v, 0)
    IN  IF Raised(part) THEN part ELSE GetKey(part.v, "text")

(* data["candidates"][0]["content"]["parts"][0]["text"] *)
ExtractText(data) ==
    LET candidates == GetKey(data, "candidates")
        candidate  == IF Raised(candidates) THEN candidates ELSE GetIndex(candidates.v, 0)
        content    == IF Raised(candidate) THEN candidate ELSE GetKey(candidate.v, "content")
        parts      == IF Raised(content) THEN content ELSE GetKey(content.v, "parts")
        part       == IF Raised(parts) THEN parts ELSE GetIndex(parts.v, 0)
    IN  IF Raised(part) THEN part ELSE GetKey(part.v, "text")

-----------------------------------------------------------------------------
(* send_to_gemini *)

(* What the upstream can do with one POST: no response at all (the client *)
(* raises the named httpx exception), or a response.                      *)
NoResponse(cls) == [kind |-> "error", exc |-> cls, status |-> 0, body |-> JNull]
Response(status, body) == [kind |-> "response", exc |-> "none", status |-> status, body |-> body]

(* await client.post(...) *)
Post(up) ==
    IF up.kind = "error" THEN Raise(up.exc) ELSE Return(up)

(* response.is_success *)
IsSuccess(status) == 200 <= status /\ status <= 299

(* response.raise_for_status() *)
RaiseForStatus(response) ==
    IF IsSuccess(response.status) THEN Return(response) ELSE RaiseStatus(response.status)

(* response.json() *)
ResponseJson(response) ==
    IF response.body.t = "text" THEN Raise("JSONDecodeError") ELSE Return(response.body)

(* The body of the try statement. *)
TryBody(up) ==
    LET response == Post(up)
        checked  == IF Raised(response) THEN response ELSE RaiseForStatus(response.v)
        data     == IF Raised(checked) THEN checked ELSE ResponseJson(checked.v)
    IN  IF Raised(data) THEN data ELSE ExtractText(data.v)

DetailOverloaded == "Le service d'analyse IA est surchargé. Veuillez réessayer plus tard."
DetailConfiguration == "Problème de configuration interne avec le service d'analyse IA."
DetailUpstream == "Le service d'analyse IA externe rencontre un problème."
DetailUnreachable == "Impossible de joindre le service d'analyse IA. Vérifiez votre connexion."
DetailFormat == "La réponse du service d'analyse IA est dans un format inattendu."

(* A variant: 403 left out of the statuses of a configuration problem. *)
OnHTTPStatusErrorWithout403(status_code) ==
    IF status_code = 429 THEN HTTPException(503, DetailOverloaded)
    ELSE IF status_code \in {400, 401} THEN HTTPException(500, DetailConfiguration)
    ELSE HTTPException(502, DetailUpstream)

(* except httpx.HTTPStatusError as e: *)
OnHTTPStatusError(status_code) ==
    IF status_code = 429 THEN HTTPException(503, DetailOverloaded)
    ELSE IF status_code \in {400, 401, 403} THEN HTTPException(500, DetailConfiguration)
    ELSE HTTPException(502, DetailUpstream)

(* except httpx.RequestError as e: *)
OnRequestError == HTTPException(504, DetailUnreachable)

(* except (KeyError, IndexError): *)
OnLookupError == HTTPException(500, DetailFormat)

(* A variant: only httpx.ConnectError caught where httpx.RequestError is. *)
HandleConnectErrorOnly(res) ==
    IF ~Raised(res) THEN res
    ELSE IF IsInstance(res.exc, "HTTPStatusError") THEN OnHTTPStatusError(res.status_code)
    ELSE IF IsInstance(res.exc, "ConnectError") THEN OnRequestError
    ELSE IF IsInstance(res.exc, "KeyError") \/ IsInstance(res.exc, "IndexError") THEN OnLookupError
    ELSE res

(* The except clauses, tried in order; an exception none matches propagates. *)
Handle(res) ==
    IF ~Raised(res) THEN res
    ELSE IF IsInstance(res.exc, "HTTPStatusError") THEN OnHTTPStatusError(res.status_code)
    ELSE IF IsInstance(res.exc, "RequestError") THEN OnRequestError
    ELSE IF IsInstance(res.exc, "KeyError") \/ IsInstance(res.exc, "IndexError") THEN OnLookupError
    ELSE res

(* send_to_gemini(prompt), given what the upstream does with its POST *)
send_to_gemini(up) == Handle(TryBody(up))

(* "Recette générée avec succès" and the character U+1F389, spelled out here *)
SuccessMessage == "Recette générée avec succès U+1F389"

(* generate_recipe after the await: the reply the caller gets *)
GenerateRecipeReply(gemini_response) ==
    IF ~Raised(gemini_response)
    THEN [kind |-> "ok", message |-> SuccessMessage, recipe |-> gemini_response.v,
          status_code |-> 200, detail |-> ""]
    ELSE IF gemini_response.exc = "HTTPException"
    THEN [kind |-> "HTTPException", message |-> "", recipe |-> JNull,
          status_code |-> gemini_response.status_code, detail |-> gemini_response.detail]
    ELSE [kind |-> "unhandled", message |-> "", recipe |-> JNull,
          status_code |-> 500, detail |-> gemini_response.exc]

-----------------------------------------------------------------------------
(* Process-wide configuration, read once when the module is imported. *)

DefaultModel == "gemini-2.5-flash"
DefaultBaseUrl == "https://generativelanguage.googleapis.com"

(* os.getenv(name, default) *)
Getenv(env, name, default) == IF name \in DOMAIN env THEN env[name] ELSE default

(* The environments the process may be started in. *)
Environments ==
    { [GEMINI_API_KEY |-> "secret"],
      [GEMINI_API_KEY |-> "secret", GEMINI_MODEL |-> "gemini-pro",
       BASE_URL |-> "http://localhost:8080"],
      [GEMINI_API_KEY |-> ""],
      [GEMINI_MODEL |-> "gemini-pro"] }

(* if not GEMINI_API_KEY: raise RuntimeError(...) *)
Starts(env) == Getenv(env, "GEMINI_API_KEY", "") # ""

(* GEMINI_API_KEY, GEMINI_MODEL, BASE_URL *)
LoadConfig(env) ==
    [ GEMINI_API_KEY |-> Getenv(env, "GEMINI_API_KEY", ""),
      GEMINI_MODEL   |-> Getenv(env, "GEMINI_MODEL", DefaultModel),
      BASE_URL       |-> Getenv(env, "BASE_URL", DefaultBaseUrl) ]

(* f"{BASE_URL}/v1beta/models/{GEMINI_MODEL}:generateContent?key={GEMINI_API_KEY}" *)
Url(cfg) ==
    <<cfg.BASE_URL, "/v1beta/models/", cfg.GEMINI_MODEL, ":generateContent?key=",
      cfg.GEMINI_API_KEY>>

(* payload = {"contents": [{"parts": [{"text": prompt}]}]} *)
Payload(text) ==
    JDict([contents |-> JList(<<JDict([parts |-> JList(<<JDict([text |-> JStr(text)])>>)])>>)])

-----------------------------------------------------------------------------
(* State. *)

VARIABLES
    config,     \* GEMINI_API_KEY, GEMINI_MODEL, BASE_URL
    pc,         \* per request: "idle", "rejected", "awaiting", "done"
    data,       \* per request: the handler's validated RecipeRequest
    inflight,   \* per request: the POST awaiting its response (url, json)
    posts,      \* per request: how many POSTs it has issued
    built,      \* per request: how many prompts it has built
    upstream,   \* per request: what the upstream did with its POST
    reply       \* per request: what the caller got

vars == <<config, pc, data, inflight, posts, built, upstream, reply>>

NoData == [ingredients |-> <<>>, language |-> "none"]
NoCall == [url |-> <<>>, json |-> JNull]
NoUpstream == [kind |-> "none", exc |-> "none", status |-> 0, body |-> JNull]
NoReply == [kind |-> "none", message |-> "", recipe |-> JNull, status_code |-> 0, detail |-> ""]

(* The 422 reply of the framework to a body that is no RecipeRequest. *)
ValidationReply ==
    [kind |-> "RequestValidationError", message |-> "", recipe |-> JNull,
     status_code |-> 422, detail |-> "language"]

Init ==
    /\ \E env \in Environments : Starts(env) /\ config = LoadConfig(env)
    /\ pc = [r \in Reqs |-> "idle"]
    /\ data = [r \in Reqs |-> NoData]
    /\ inflight = [r \in Reqs |-> NoCall]
    /\ posts = [r \in Reqs |-> 0]
    /\ built = [r \in Reqs |-> 0]
    /\ upstream = [r \in Reqs |-> NoUpstream]
    /\ reply = [r \in Reqs |-> NoReply]

(* A request body that fails RecipeRequest's validation never reaches the handler. *)
RejectRequest(r, raws) ==
    /\ pc[r] = "idle"
    /\ \E raw \in raws : ~ValidRecipeRequest(raw)
    /\ pc' = [pc EXCEPT ![r] = "rejected"]
    /\ reply' = [reply EXCEPT ![r] = ValidationReply]
    /\ UNCHANGED <<config, data, inflight, posts, built, upstream>>

(* generate_recipe up to its await: the prompt is built and send_to_gemini posts it. *)
GenerateRecipe(r, raws) ==
    /\ pc[r] = "idle"
    /\ \E raw \in raws :
        /\ ValidRecipeRequest(raw)
        /\ data' = [data EXCEPT ![r] = raw]
        /\ inflight' = [inflight EXCEPT ![r] =
                            [url |-> Url(config), json |-> Payload(BuildPrompt(raw))]]
    /\ built' = [built EXCEPT ![r] = @ + 1]
    /\ posts' = [posts EXCEPT ![r] = @ + 1]
    /\ pc' = [pc EXCEPT ![r] = "awaiting"]
    /\ UNCHANGED <<config, upstream, reply>>

(* A variant: a failed call is posted once more before it is reported. *)
ResumeWithRetry(r, ups) ==
    /\ pc[r] = "awaiting"
    /\ \E up \in ups :
        IF Raised(send_to_gemini(up)) /\ posts[r] < 2
        THEN /\ posts' = [posts EXCEPT ![r] = @ + 1]
             /\ UNCHANGED <<config, pc, data, inflight, built, upstream, reply>>
        ELSE /\ upstream' = [upstream EXCEPT ![r] = up]
             /\ reply' = [reply EXCEPT ![r] = GenerateRecipeReply(send_to_gemini(up))]
             /\ data' = [data EXCEPT ![r] = NoData]
             /\ inflight' = [inflight EXCEPT ![r] = NoCall]
             /\ pc' = [pc EXCEPT ![r] = "done"]
             /\ UNCHANGED <<config, posts, built>>

(* A variant: the result kept in one place that every request reads its reply from. *)
ResumeShared(r, ups) ==
    /\ pc[r] = "awaiting"
    /\ \E up \in ups :
        /\ upstream' = [upstream EXCEPT ![r] = up]
        /\ reply' = [q \in Reqs |->
                        IF q = r \/ pc[q] = "done"
                        THEN GenerateRecipeReply(send_to_gemini(up)) ELSE reply[q]]
    /\ data' = [data EXCEPT ![r] = NoData]
    /\ inflight' = [inflight EXCEPT ![r] = NoCall]
    /\ pc' = [pc EXCEPT ![r] = "done"]
    /\ UNCHANGED <<config, posts, built>>

(* The await returns or raises; send_to_gemini and generate_recipe run to their end. *)
Resume(r, ups) ==
    /\ pc[r] = "awaiting"
    /\ \E up \in ups :
        /\ upstream' = [upstream EXCEPT ![r] = up]
        /\ reply' = [reply EXCEPT ![r] = GenerateRecipeReply(send_to_gemini(up))]
    /\ data' = [data EXCEPT ![r] = NoData]
    /\ inflight' = [inflight EXCEPT ![r] = NoCall]
    /\ pc' = [pc EXCEPT ![r] = "done"]
    /\ UNCHANGED <<config, posts, built>>

-----------------------------------------------------------------------------
(* The inputs the specifications draw from. *)

Tomato == <<"t", "o", "m", "a", "t", "o">>
Basil == <<"b", "a", "s", "i", "l">>
Garlic == <<"g", "a", "r", "l", "i", "c">>

IngredientLists ==
    { <<>>, <<Tomato>>, <<Tomato, Basil>>, <<Tomato, Basil, Garlic>>,
      <<Garlic, Basil, Tomato>> }

RawRequests == [ingredients : IngredientLists, language : {"fr", "en", "de"}]

FewRawRequests ==
    [ingredients : {<<Tomato, Basil>>}, language : {"fr", "en", "de"}]

RecipeXYZ == JStr(<<"R", "e", "c", "i", "p", "e", " ", "X", "Y", "Z">>)
OtherText == JStr(<<"O", "t", "h", "e", "r">>)

(* Values of the wrong shape for any place of the expected path. *)
Junk == {JNull, JNum(7), JStr(<<>>), JStr(<<"o", "k">>), JList(<<>>), JDict(<<>>)}

(* The lists of 1..MaxLen items: a first item, then copies of an item the code *)
(* never reads.                                                                *)
ListsOf(firsts, other) ==
    {JList(<<f>> \o [i \in 1..n |-> other]) : f \in firsts, n \in 0..(MaxLen - 1)}

Texts == {RecipeXYZ, JStr(<<>>), JNull}

PartItems ==
    Junk \cup {JDict([text |-> t]) : t \in Texts}
         \cup {JDict([inlineData |-> JNull])}

PartsValues ==
    Junk \cup ListsOf(PartItems, JDict([text |-> OtherText]))

ContentValues ==
    Junk \cup {JDict([parts |-> p]) : p \in PartsValues}
         \cup {JDict([role |-> JStr(<<"o", "k">>)])}

OtherCandidate ==
    JDict([content |-> JDict([parts |-> JList(<<JDict([text |-> OtherText])>>)])])

CandidateItems ==
    Junk \cup {JDict([content |-> c]) : c \in ContentValues}
         \cup {JDict([finishReason |-> JStr(<<"o", "k">>)])}

CandidatesValues ==
    Junk \cup ListsOf(CandidateItems, OtherCandidate)

Bodies ==
    Junk \cup {JDict([candidates |-> c]) : c \in CandidatesValues}
         \cup {JDict([promptFeedback |-> JNull])}
         \cup {NotJson(<<>>), NotJson(<<"<", "h", "t", "m", "l", ">">>)}

Statuses == 100..599

TransportFailures ==
    {"ConnectError", "ConnectTimeout", "ReadTimeout", "WriteTimeout", "PoolTimeout",
     "ReadError", "WriteError", "RemoteProtocolError", "DecodingError"}

(* Everything the upstream can do with one POST. *)
UpstreamBehaviours ==
    {NoResponse(e) : e \in TransportFailures}
        \cup {Response(s, b) : s \in Statuses, b \in Bodies}

GoodBody ==
    JDict([candidates |-> JList(<<JDict([content |-> JDict([parts |->
        JList(<<JDict([text |-> RecipeXYZ])>>)])])>>)])

FewUpstreamBehaviours ==
    {NoResponse("ConnectError"), NoResponse("ReadTimeout")}
        \cup {Response(200, b) : b \in {GoodBody, JDict(<<>>), JNull, NotJson(<<>>)}}
        \cup {Response(s, JNull) : s \in {301, 400, 403, 404, 429, 500}}

-----------------------------------------------------------------------------
(* Specifications. *)

NextOf(requests, raws, ups) ==
    \E r \in requests :
        \/ RejectRequest(r, raws)
        \/ GenerateRecipe(r, raws)
        \/ Resume(r, ups)

(* Requests in flight together, under every interleaving. *)
Next == NextOf(Reqs, RawRequests, FewUpstreamBehaviours)

Spec == Init /\ [][Next]_vars

(* One request against everything the upstream can do. *)
NextCall == NextOf({1}, FewRawRequests, UpstreamBehaviours)

SpecCall == Init /\ [][NextCall]_vars

-----------------------------------------------------------------------------
(* Vocabulary of the properties. *)

(* needle is a substring of hay *)
Contains(hay, needle) ==
    \E i \in 1..(Len(hay) - Len(needle) + 1) :
        SubSeq(hay, i, i + Len(needle) - 1) = needle

(* The prompt carried by the POST that request r has in flight. *)
SentPrompt(r) == inflight[r].json.v.contents.v[1].v.parts.v[1].v.text.v

(* The failure category of a reply: the five kinds of the error taxonomy. *)
Category(rep) ==
    CASE rep.kind = "HTTPException" /\ rep.status_code = 503 -> "ServiceOverloaded"
      [] rep.kind = "HTTPException" /\ rep.status_code = 500 /\ rep.detail = DetailConfiguration
            -> "UpstreamMisconfigured"
      [] rep.kind = "HTTPException" /\ rep.status_code = 502 -> "UpstreamError"
      [] rep.kind = "HTTPException" /\ rep.status_code = 504 -> "UpstreamUnreachable"
      [] rep.kind = "HTTPException" /\ rep.status_code = 500 /\ rep.detail = DetailFormat
            -> "UpstreamBadResponse"
      [] OTHER -> "none"

Categories ==
    {"ServiceOverloaded", "UpstreamMisconfigured", "UpstreamError", "UpstreamUnreachable",
     "UpstreamBadResponse"}

(* Request r has completed on a response of the upstream. *)
GotResponse(r) == pc[r] = "done" /\ upstream[r].kind = "response"

(* The document holds candidates[0].content.parts[0].text. *)
HasPath(body) ==
    /\ body.t = "dict" /\ "candidates" \in DOMAIN body.v
    /\ body.v.candidates.t = "list" /\ Len(body.v.candidates.v) >= 1
    /\ LET candidate == body.v.candidates.v[1]
       IN  /\ candidate.t = "dict" /\ "content" \in DOMAIN candidate.v
           /\ candidate.v.content.t = "dict" /\ "parts" \in DOMAIN candidate.v.content.v
           /\ candidate.v.content.v.parts.t = "list"
           /\ Len(candidate.v.content.v.parts.v) >= 1
           /\ LET part == candidate.v.content.v.parts.v[1]
              IN  part.t = "dict" /\ "text" \in DOMAIN part.v

PathText(body) == body.v.candidates.v[1].v.content.v.parts.v[1].v.text

nom_recette == <<"n", "o", "m", "_", "r", "e", "c", "e", "t", "t", "e">>
description_courte ==
    <<"d", "e", "s", "c", "r", "i", "p", "t", "i", "o", "n", "_", "c", "o", "u", "r", "t", "e">>
instructions == <<"i", "n", "s", "t", "r", "u", "c", "t", "i", "o", "n", "s">>
recipe_name == <<"r", "e", "c", "i", "p", "e", "_", "n", "a", "m", "e">>
short_description ==
    <<"s", "h", "o", "r", "t", "_", "d", "e", "s", "c", "r", "i", "p", "t", "i", "o", "n">>

Markers(language) ==
    IF language = "fr" THEN {nom_recette, description_courte, instructions}
    ELSE {recipe_name, short_description, instructions}

OtherLanguage(language) == IF language = "fr" THEN "en" ELSE "fr"

(* The template of a language: its prompt around an empty ingredient clause. *)
Template(language) == SelectPrompt(language, <<>>)

(* items[1], ", ", items[2], ", ", ..., items[n] *)
RECURSIVE Clause(_, _)
Clause(items, n) ==
    IF n = 1 THEN items[1] ELSE Clause(items, n - 1) \o <<",", " ">> \o items[n]

(* What request r holds, as opposed to the process and to the other requests. *)
Local(r) == <<pc[r], data[r], inflight[r], posts[r], built[r], upstream[r], reply[r]>>

-----------------------------------------------------------------------------
(* C1: a response whose status is not 2xx makes the call fail with the category *)
(* of the table: 429 ServiceOverloaded (503), 400/401/403 UpstreamMisconfigured *)
(* (500), any other status UpstreamError (502); never a success, never another  *)
(* category.                                                                    *)
C1_StatusTable ==
    \A r \in Reqs :
        (GotResponse(r) /\ ~(upstream[r].status \in 200..299)) =>
            LET status == upstream[r].status
            IN  /\ reply[r].kind = "HTTPException"
                /\ status = 429 =>
                      Category(reply[r]) = "ServiceOverloaded" /\ reply[r].status_code = 503
                /\ status \in {400, 401, 403} =>
                      Category(reply[r]) = "UpstreamMisconfigured" /\ reply[r].status_code = 500
                /\ status \notin {429, 400, 401, 403} =>
                      Category(reply[r]) = "UpstreamError" /\ reply[r].status_code = 502

C1_Witness ==
    \E r \in Reqs :
        GotResponse(r) /\ upstream[r].status = 403 /\ Category(reply[r]) = "UpstreamMisconfigured"

(* C2: every call ends in a success payload or in a failure of one of the five *)
(* categories, whatever the upstream does.                                     *)
C2_EveryOutcomeCategorized ==
    \A r \in Reqs :
        pc[r] = "done" => (reply[r].kind = "ok" \/ Category(reply[r]) \in Categories)

(* C3: a 2xx response whose JSON body lacks candidates[0].content.parts[0].text *)
(* makes the call fail with UpstreamBadResponse (500) and no payload.           *)
C3_MissingPathIsBadResponse ==
    \A r \in Reqs :
        (/\ GotResponse(r) /\ upstream[r].status \in 200..299
         /\ upstream[r].body.t # "text" /\ ~HasPath(upstream[r].body)) =>
            Category(reply[r]) = "UpstreamBadResponse" /\ reply[r].status_code = 500

(* C4: when no response is received (connection failure, or the timeout of the *)
(* outbound call expiring) the call fails with UpstreamUnreachable (504).      *)
C4_NoResponseIsUnreachable ==
    \A r \in Reqs :
        (pc[r] = "done" /\ upstream[r].kind = "error") =>
            Category(reply[r]) = "UpstreamUnreachable" /\ reply[r].status_code = 504

C4_Witness ==
    \E r \in Reqs :
        /\ pc[r] = "done" /\ upstream[r].kind = "error" /\ upstream[r].exc = "ReadTimeout"
        /\ Category(reply[r]) = "UpstreamUnreachable"

(* C5: a 2xx response whose body holds candidates[0].content.parts[0].text is *)
(* answered with exactly that text, of the first candidate and first part, as *)
(* the recipe field of generate_recipe's reply.                               *)
C5_TextReturned ==
    \A r \in Reqs :
        (GotResponse(r) /\ upstream[r].status \in 200..299 /\ HasPath(upstream[r].body)) =>
            reply[r].kind = "ok" /\ reply[r].recipe = PathText(upstream[r].body)

C5_Witness ==
    \E r \in Reqs :
        /\ GotResponse(r) /\ upstream[r].status = 200 /\ HasPath(upstream[r].body)
        /\ Len(upstream[r].body.v.candidates.v) = 2
        /\ Len(upstream[r].body.v.candidates.v[1].v.content.v.parts.v) = 2
        /\ reply[r].kind = "ok" /\ reply[r].recipe = RecipeXYZ

(* C6: an execution of generate_recipe issues exactly one POST: none before it *)
(* runs, one once it awaits, and still one after any outcome, success or       *)
(* failure of any category.                                                    *)
C6_ExactlyOnePost ==
    \A r \in Reqs :
        /\ pc[r] \in {"idle", "rejected"} => posts[r] = 0
        /\ pc[r] \in {"awaiting", "done"} => posts[r] = 1

C6_Witness ==
    \E r1, r2 \in Reqs :
        /\ pc[r1] = "done" /\ Category(reply[r1]) = "ServiceOverloaded" /\ posts[r1] = 1
        /\ pc[r2] = "done" /\ reply[r2].kind = "ok" /\ posts[r2] = 1

(* C7: a request whose ingredient list is empty is rejected before the prompt *)
(* is built: no prompt is built for it and no POST is issued.                 *)
C7_EmptyListRejected ==
    \A r \in Reqs :
        (data[r] # NoData /\ data[r].ingredients = <<>>) => built[r] = 0 /\ posts[r] = 0

(* C8 as amended: the prompt sent for a language holds the three markers of that *)
(* language; instructions is common to both sets, and the other markers of one   *)
(* language do not occur in the template of the other.                           *)
C8_LanguageMarkers ==
    \A r \in Reqs :
        pc[r] = "awaiting" =>
            LET own == data[r].language
            IN  /\ \A m \in Markers(own) : Contains(SentPrompt(r), m)
                /\ \A m \in Markers(OtherLanguage(own)) \ {instructions} :
                       ~Contains(Template(own), m)
                /\ instructions \in Markers(own) \cap Markers(OtherLanguage(own))

C8_Witness ==
    \E r1, r2 \in Reqs :
        /\ pc[r1] = "awaiting" /\ data[r1].language = "fr"
        /\ Contains(SentPrompt(r1), nom_recette) /\ Contains(SentPrompt(r1), instructions)
        /\ pc[r2] = "awaiting" /\ data[r2].language = "en"
        /\ Contains(SentPrompt(r2), recipe_name) /\ Contains(SentPrompt(r2), instructions)

(* C8 as stated: the prompt holds the markers of its language, and no marker of *)
(* one language's set occurs in the template of the other language.             *)
C8_MarkerSetsExclusive ==
    \A r \in Reqs :
        pc[r] = "awaiting" =>
            LET own == data[r].language
            IN  /\ \A m \in Markers(own) : Contains(SentPrompt(r), m)
                /\ \A m \in Markers(OtherLanguage(own)) : ~Contains(Template(own), m)

(* C9: for a non-empty ingredient list and either language the prompt holds the *)
(* ingredients, in the given order and joined by ", ", as one contiguous        *)
(* substring; and two requests with identical inputs send identical prompts.    *)
C9_IngredientClause ==
    /\ \A r \in Reqs :
          (pc[r] = "awaiting" /\ data[r].ingredients # <<>>) =>
              Contains(SentPrompt(r), Clause(data[r].ingredients, Len(data[r].ingredients)))
    /\ \A r1, r2 \in Reqs :
          (pc[r1] = "awaiting" /\ pc[r2] = "awaiting" /\ data[r1] = data[r2]) =>
              SentPrompt(r1) = SentPrompt(r2)

C9_Witness ==
    \E r1, r2 \in Reqs :
        /\ r1 # r2 /\ pc[r1] = "awaiting" /\ pc[r2] = "awaiting" /\ data[r1] = data[r2]
        /\ data[r1] = [ingredients |-> <<Tomato, Basil, Garlic>>, language |-> "en"]
        /\ Contains(SentPrompt(r1),
                    <<"t", "o", "m", "a", "t", "o", ",", " ", "b", "a", "s", "i", "l", ",", " ",
                      "g", "a", "r", "l", "i", "c">>)

(* C10: with several requests in flight, a step of one request changes nothing *)
(* another request holds and never the configuration; what a request posts is  *)
(* made of its own input and the configuration, and its reply of its own       *)
(* upstream response.                                                          *)
C10_Isolation ==
    [][ /\ config' = config
        /\ \A r1, r2 \in Reqs :
              (r1 # r2 /\ Local(r1)' # Local(r1)) => Local(r2)' = Local(r2)
        /\ \A r \in Reqs :
              (pc[r] = "idle" /\ pc'[r] = "awaiting") =>
                  inflight'[r] = [url |-> Url(config), json |-> Payload(BuildPrompt(data'[r]))]
        /\ \A r \in Reqs :
              (pc[r] = "awaiting" /\ pc'[r] = "done") =>
                  reply'[r] = GenerateRecipeReply(send_to_gemini(upstream'[r]))
      ]_vars

C10_Witness ==
    \E r1, r2 \in Reqs :
        /\ pc[r1] = "done" /\ reply[r1].kind = "ok"
        /\ pc[r2] = "awaiting" /\ posts[r2] = 1 /\ SentPrompt(r2) # <<>>

====
